---- MODULE Spec2Model ----
(***************************************************************************)
(* Model of setup_data.py: the directory provisioner                       *)
(* (create_directory_structure), the documentation emitter                 *)
(* (create_sample_data_info) and the sequencer (main), running against a   *)
(* filesystem.  os.makedirs(name, exist_ok=True) is modelled at the level  *)
(* of its system calls (stat of the parent, mkdir, stat of the name), and  *)
(* open(..., 'w') / f.write / close at the level of open with truncation,  *)
(* the encoding of the text, and the flush of the encoded bytes.           *)
(***************************************************************************)
EXTENDS Naturals, Sequences, FiniteSets

(* ---------------------------- bounds ----------------------------------- *)

\* number of times the call under study (main, or one of the two functions
\* on its own) is made, one after the other
MaxRuns == 2

\* number of paths that exist before the first call, ancestors not counted
MaxPre == 1

\* number of runs of main each of the concurrent invocations makes
ConcRuns == 1

(* ---------------------------- paths ------------------------------------ *)

\* a path is the sequence of its components; Root is the working directory
Root == <<>>

\* os.path.split(name)[0]
PathHead(name) == SubSeq(name, 1, Len(name) - 1)

directories ==
  << <<"data", "1sec">>,
     <<"data", "1min">>,
     <<"data", "5min">>,
     <<"data", "1sec", "alpha101">>,
     <<"data", "1min", "alpha101">>,
     <<"data", "5min", "alpha101">>,
     <<"output", "4_1", "1sec">>,
     <<"output", "4_1", "1min">>,
     <<"output", "4_1", "5min">>,
     <<"trained_agents", "5_7_3", "1sec", "PPO">>,
     <<"trained_agents", "5_7_3", "1min", "PPO">>,
     <<"trained_agents", "5_7_3", "5min", "PPO">> >>

ManifestSet == {directories[i] : i \in DOMAIN directories}

README == <<"data", "README.md">>

DataDir == PathHead(README)

Prefixes(name) == {SubSeq(name, 1, k) : k \in 1..Len(name)}

\* every path the program can name: the manifest, its ancestors, the file
Nodes == UNION {Prefixes(d) : d \in ManifestSet} \cup {README}

AllPaths == Nodes \cup {Root}

StrictAncestors(name) == Prefixes(name) \ {name}

(* ---------------------------- text and bytes --------------------------- *)

\* code point of the arrow of line 97 of the template; the rest is ASCII
Arrow == 8594

\* info_content, abstracted to three code points: '#', the arrow, '\n'
info_content == <<35, Arrow, 10>>

\* open() is given no encoding and takes the one of the platform and of
\* the environment of the process: locale.getpreferredencoding(False)
Encodings == {"utf-8", "cp1252"}

IsAscii(c) == c < 128

\* can the codec encode the code point?  cp1252 has no U+2192
CanEncodeChar(codec, c) == IsAscii(c) \/ codec = "utf-8"

CanEncode(codec, s) == \A i \in DOMAIN s : CanEncodeChar(codec, s[i])

EncodeChar(codec, c) ==
  IF IsAscii(c) THEN <<c>> ELSE <<226, 134, 146>>

RECURSIVE Encode(_, _)
Encode(codec, s) ==
  IF s = <<>> THEN <<>>
  ELSE EncodeChar(codec, Head(s)) \o Encode(codec, Tail(s))

\* the bytes of the template as the documentation of the file states them
TemplateBytes == Encode("utf-8", info_content)

\* contents data/README.md can have before the first call: empty, shorter,
\* different, the template itself, and longer
PreContents ==
  { <<>>, <<35>>, <<33, 33>>, TemplateBytes, TemplateBytes \o <<33>> }

(* ---------------------------- state ------------------------------------ *)

VARIABLES
  kind,     \* filesystem: path -> "none" | "dir" | "file"
  content,  \* filesystem: path -> bytes of the file at that path
  ro,       \* paths the process has no write permission on
  enc,      \* per invocation: the encoding open() chose for f
  procs,    \* the invocations that run
  entry,    \* per invocation: what was called: main or one of the functions
  pc,       \* per invocation: the statement it is at
  idx,      \* per invocation: position of the for loop in directories
  stack,    \* per invocation: the names of the active os.makedirs frames
  exc,      \* per invocation: the exception in flight, or "none"
  buf,      \* per invocation: the bytes f holds, written when f is closed
  out,      \* per invocation: the lines printed by the current call
  hist,     \* per invocation: the calls it finished, with their outcome
  start     \* per invocation: the filesystem when the current call began

vars == <<kind, content, ro, enc, procs, entry, pc, idx, stack, exc, buf,
          out, hist, start>>

AllProcs == {"p1", "p2"}

(* ---------------------------- filesystem ------------------------------- *)

\* os.path.exists(name): stat succeeds
Exists(name) == kind[name] # "none"

\* os.path.isdir(name)
IsDir(name) == kind[name] = "dir"

\* error of resolving the directory h a system call has to look into
RECURSIVE LookupErr(_)
LookupErr(h) ==
  IF h = Root THEN "none"
  ELSE LET e == LookupErr(PathHead(h)) IN
       IF e # "none" THEN e
       ELSE IF kind[h] = "dir" THEN "none"
       ELSE IF kind[h] = "file" THEN "NotADirectoryError"
       ELSE "FileNotFoundError"

\* the errors mkdir(name) can end with; none: the directory is made.  When
\* the name exists and its parent is not writable the system picks
MkdirErrs(name) ==
  LET h == PathHead(name) IN
  IF LookupErr(h) # "none" THEN {LookupErr(h)}
  ELSE (IF Exists(name) THEN {"FileExistsError"} ELSE {})
       \cup (IF h \in ro THEN {"PermissionError"} ELSE {})

\* the error open(name, 'w') ends with, "none" when it opens the file
OpenErr(name) ==
  LET h == PathHead(name) IN
  IF LookupErr(h) # "none" THEN LookupErr(h)
  ELSE IF kind[name] = "dir" THEN "IsADirectoryError"
  ELSE IF kind[name] = "file" /\ name \in ro THEN "PermissionError"
  ELSE IF kind[name] = "none" /\ h \in ro THEN "PermissionError"
  ELSE "none"

Max(a, b) == IF a >= b THEN a ELSE b

\* write(2) of bytes b at offset pos of a file that holds old
WriteAt(old, pos, b) ==
  [i \in 1..Max(Len(old), pos + Len(b)) |->
     IF i > pos /\ i <= pos + Len(b) THEN b[i - pos]
     ELSE IF i <= Len(old) THEN old[i] ELSE 0]

Dirs(k) == {n \in Nodes : k[n] = "dir"}

Files(k) == {n \in Nodes : k[n] = "file"}

(* ---------------------------- initial states --------------------------- *)

RECURSIVE SeedSets(_)
SeedSets(k) ==
  IF k = 0 THEN {{}}
  ELSE LET prev == SeedSets(k - 1) IN
       prev \cup {s \cup {n} : s \in prev, n \in Nodes}

\* the filesystem in which the paths of S exist, those of F as files
KindOf(S, F) ==
  [n \in AllPaths |->
     IF n = Root THEN "dir"
     ELSE IF n \in F THEN "file"
     ELSE IF \E s \in S : n \in Prefixes(s) THEN "dir"
     ELSE "none"]

ContentOf(F, c) ==
  [n \in Nodes |->
     IF n \notin F THEN <<>>
     ELSE IF n = README THEN c ELSE <<33>>]

ProcInit ==
  /\ enc = [p \in AllProcs |-> "none"]
  /\ entry = [p \in AllProcs |-> "none"]
  /\ pc = [p \in AllProcs |-> "idle"]
  /\ idx = [p \in AllProcs |-> 0]
  /\ stack = [p \in AllProcs |-> <<>>]
  /\ exc = [p \in AllProcs |-> "none"]
  /\ buf = [p \in AllProcs |-> <<>>]
  /\ out = [p \in AllProcs |-> <<>>]
  /\ hist = [p \in AllProcs |-> <<>>]
  /\ start = [p \in AllProcs |-> [kind |-> kind, content |-> content]]

\* one invocation at a time, in any working directory within the bounds
Init ==
  /\ \E S \in SeedSets(MaxPre) : \E F \in SUBSET S :
       /\ \A f \in F : \A s \in S : f \notin StrictAncestors(s)
       /\ kind = KindOf(S, F)
       /\ \E c \in (IF README \in F THEN PreContents ELSE {<<>>}) :
            content = ContentOf(F, c)
  /\ ro \in {{}} \cup {{n} : n \in {m \in AllPaths : kind[m] = "dir"}
                                  \cup {m \in {README} : kind[m] = "file"}}
  /\ procs = {"p1"}
  /\ ProcInit

\* two invocations in an empty, writable working directory
InitConc ==
  /\ kind = KindOf({}, {})
  /\ content = ContentOf({}, <<>>)
  /\ ro = {}
  /\ procs = AllProcs
  /\ ProcInit

(* ---------------------------- calls and returns ------------------------ *)

\* the call of invocation p returns to its caller: exit status 0 for main
Returned(p) ==
  /\ pc' = [pc EXCEPT ![p] = "idle"]
  /\ hist' = [hist EXCEPT ![p] =
                Append(@, [entry |-> entry[p], status |-> "ok",
                           exc |-> "none"])]

\* as Raised, with main catching every exception and ending normally
Raised_swallowed(p, e) ==
  /\ pc' = [pc EXCEPT ![p] = "idle"]
  /\ hist' = [hist EXCEPT ![p] =
                Append(@, [entry |-> entry[p], status |-> "ok",
                           exc |-> "none"])]

\* exception e leaves the call of invocation p: nothing in the script
\* catches it, main ends with a traceback and exit status 1
Raised(p, e) ==
  /\ pc' = [pc EXCEPT ![p] = "idle"]
  /\ hist' = [hist EXCEPT ![p] =
                Append(@, [entry |-> entry[p], status |-> "raised",
                           exc |-> e])]

ExitCode(h) == IF h.status = "ok" THEN 0 ELSE 1

RunLimit == IF procs = AllProcs THEN ConcRuns ELSE MaxRuns

Call(p, e, first, line) ==
  /\ p \in procs
  /\ pc[p] = "idle"
  /\ Len(hist[p]) < RunLimit
  /\ hist[p] # <<>> => e = entry[p]
  /\ entry' = [entry EXCEPT ![p] = e]
  /\ pc' = [pc EXCEPT ![p] = first]
  /\ out' = [out EXCEPT ![p] = line]
  /\ start' = [start EXCEPT ![p] = [kind |-> kind, content |-> content]]
  /\ UNCHANGED <<kind, content, ro, enc, procs, idx, stack, exc, buf, hist>>

\* as CallMain, with the two calls of main in the other order
CallMain_emitterFirst(p) == Call(p, "main", "open", <<<<"banner">>>>)

\* python setup_data.py: main() prints the banner and calls the provisioner
CallMain(p) == Call(p, "main", "cds", <<<<"banner">>>>)

\* create_directory_structure() called on its own
CallProvisioner(p) == Call(p, "create_directory_structure", "cds", <<>>)

\* create_sample_data_info() called on its own
CallEmitter(p) == Call(p, "create_sample_data_info", "open", <<>>)

(* ---------------------------- create_directory_structure --------------- *)

\* print("Creating directory structure..."), the first turn of the loop
CdsBegin(p) ==
  /\ pc[p] = "cds"
  /\ out' = [out EXCEPT ![p] = Append(@, <<"creating">>)]
  /\ idx' = [idx EXCEPT ![p] = 1]
  /\ stack' = [stack EXCEPT ![p] = <<directories[1]>>]
  /\ pc' = [pc EXCEPT ![p] = "md_check"]
  /\ UNCHANGED <<kind, content, ro, enc, procs, entry, exc, buf, hist, start>>

\* os.makedirs: if head and tail and not path.exists(head): makedirs(head)
MdCheck(p) ==
  /\ pc[p] = "md_check"
  /\ LET name == stack[p][Len(stack[p])]
         head == PathHead(name)
     IN IF head # Root /\ ~Exists(head)
        THEN /\ stack' = [stack EXCEPT ![p] = Append(@, head)]
             /\ pc' = pc
        ELSE /\ stack' = stack
             /\ pc' = [pc EXCEPT ![p] = "md_mkdir"]
  /\ UNCHANGED <<kind, content, ro, enc, procs, entry, idx, exc, buf, out,
                 hist, start>>

\* the makedirs frame on top of the stack returns
MdReturn(p) ==
  /\ stack' = [stack EXCEPT ![p] = SubSeq(@, 1, Len(@) - 1)]
  /\ pc' = [pc EXCEPT ![p] = IF Len(stack[p]) > 1 THEN "md_mkdir"
                             ELSE "created"]

\* os.makedirs: mkdir(name, mode); an OSError is looked at in MdIsdir
MdMkdir(p) ==
  /\ pc[p] = "md_mkdir"
  /\ LET name == stack[p][Len(stack[p])] IN
       \/ /\ MkdirErrs(name) = {}
          /\ kind' = [kind EXCEPT ![name] = "dir"]
          /\ MdReturn(p)
          /\ exc' = exc
       \/ /\ \E e \in MkdirErrs(name) : exc' = [exc EXCEPT ![p] = e]
          /\ pc' = [pc EXCEPT ![p] = "md_isdir"]
          /\ UNCHANGED <<kind, stack>>
  /\ UNCHANGED <<content, ro, enc, procs, entry, idx, buf, out, hist, start>>

\* as MdIsdir, with every OSError of mkdir ignored
MdIsdir_swallow(p) ==
  /\ pc[p] = "md_isdir"
  /\ MdReturn(p)
  /\ exc' = [exc EXCEPT ![p] = "none"]
  /\ UNCHANGED <<kind, content, ro, enc, procs, entry, idx, buf, out, hist,
                 start>>

\* as MdIsdir, with exist_ok=False
MdIsdir_noExistOk(p) ==
  /\ pc[p] = "md_isdir"
  /\ IF Len(stack[p]) > 1 /\ exc[p] = "FileExistsError"
     THEN MdReturn(p) /\ hist' = hist
     ELSE Raised(p, exc[p]) /\ stack' = [stack EXCEPT ![p] = <<>>]
  /\ exc' = [exc EXCEPT ![p] = "none"]
  /\ UNCHANGED <<kind, content, ro, enc, procs, entry, idx, buf, out, start>>

\* as MdIsdir, with path.exists(name) in place of path.isdir(name)
MdIsdir_exists(p) ==
  /\ pc[p] = "md_isdir"
  /\ LET name == stack[p][Len(stack[p])] IN
       IF Exists(name) \/ (Len(stack[p]) > 1 /\ exc[p] = "FileExistsError")
       THEN MdReturn(p) /\ hist' = hist
       ELSE Raised(p, exc[p]) /\ stack' = [stack EXCEPT ![p] = <<>>]
  /\ exc' = [exc EXCEPT ![p] = "none"]
  /\ UNCHANGED <<kind, content, ro, enc, procs, entry, idx, buf, out, start>>

\* as MdIsdir, with the directories the call made removed when it fails
MdIsdir_rollback(p) ==
  /\ pc[p] = "md_isdir"
  /\ LET name == stack[p][Len(stack[p])] IN
       IF IsDir(name) \/ (Len(stack[p]) > 1 /\ exc[p] = "FileExistsError")
       THEN MdReturn(p) /\ hist' = hist /\ kind' = kind
       ELSE /\ Raised(p, exc[p])
            /\ stack' = [stack EXCEPT ![p] = <<>>]
            /\ kind' = [n \in AllPaths |->
                          IF kind[n] = "dir" THEN start[p].kind[n]
                          ELSE kind[n]]
  /\ exc' = [exc EXCEPT ![p] = "none"]
  /\ UNCHANGED <<content, ro, enc, procs, entry, idx, buf, out, start>>

\* os.makedirs: except OSError: if not exist_ok or not path.isdir(name):
\* raise.  The frame below catches FileExistsError only
MdIsdir(p) ==
  /\ pc[p] = "md_isdir"
  /\ LET name == stack[p][Len(stack[p])] IN
       IF IsDir(name) \/ (Len(stack[p]) > 1 /\ exc[p] = "FileExistsError")
       THEN MdReturn(p) /\ hist' = hist
       ELSE Raised(p, exc[p]) /\ stack' = [stack EXCEPT ![p] = <<>>]
  /\ exc' = [exc EXCEPT ![p] = "none"]
  /\ UNCHANGED <<kind, content, ro, enc, procs, entry, idx, buf, out, start>>

\* print(f"Created: {directory}"), then the next turn of the loop
PrintCreated(p) ==
  /\ pc[p] = "created"
  /\ out' = [out EXCEPT ![p] = Append(@, <<"created", idx[p]>>)]
  /\ IF idx[p] < Len(directories)
     THEN /\ idx' = [idx EXCEPT ![p] = @ + 1]
          /\ stack' = [stack EXCEPT ![p] = <<directories[idx[p] + 1]>>]
          /\ pc' = [pc EXCEPT ![p] = "md_check"]
     ELSE /\ pc' = [pc EXCEPT ![p] = "cds_end"]
          /\ UNCHANGED <<idx, stack>>
  /\ UNCHANGED <<kind, content, ro, enc, procs, entry, exc, buf, hist, start>>

\* print("Directory structure created successfully!") and return; main
\* goes on to call create_sample_data_info
CdsEnd(p) ==
  /\ pc[p] = "cds_end"
  /\ out' = [out EXCEPT ![p] = Append(@, <<"structure_created">>)]
  /\ IF entry[p] = "main"
     THEN pc' = [pc EXCEPT ![p] = "open"] /\ hist' = hist
     ELSE Returned(p)
  /\ UNCHANGED <<kind, content, ro, enc, procs, entry, idx, stack, exc, buf,
                 start>>

(* ---------------------------- create_sample_data_info ------------------ *)

\* as EmitOpen, with the directory of the file made first when it is missing
EmitOpen_mkparent(p) ==
  /\ pc[p] = "open"
  /\ IF OpenErr(README) = "none"
        \/ (kind[DataDir] = "none" /\ Root \notin ro)
     THEN /\ kind' = [kind EXCEPT ![README] = "file", ![DataDir] = "dir"]
          /\ content' = [content EXCEPT ![README] = <<>>]
          /\ buf' = [buf EXCEPT ![p] = <<>>]
          /\ \E codec \in Encodings : enc' = [enc EXCEPT ![p] = codec]
          /\ pc' = [pc EXCEPT ![p] = "write"]
          /\ hist' = hist
     ELSE /\ Raised(p, OpenErr(README))
          /\ UNCHANGED <<kind, content, buf, enc>>
  /\ UNCHANGED <<ro, procs, entry, idx, stack, exc, out, start>>

\* open('data/README.md', 'w'): creates the file or truncates it; f
\* encodes with the default encoding of the process
EmitOpen(p) ==
  /\ pc[p] = "open"
  /\ IF OpenErr(README) = "none"
     THEN /\ kind' = [kind EXCEPT ![README] = "file"]
          /\ content' = [content EXCEPT ![README] = <<>>]
          /\ buf' = [buf EXCEPT ![p] = <<>>]
          /\ \E codec \in Encodings : enc' = [enc EXCEPT ![p] = codec]
          /\ pc' = [pc EXCEPT ![p] = "write"]
          /\ hist' = hist
     ELSE /\ Raised(p, OpenErr(README))
          /\ UNCHANGED <<kind, content, buf, enc>>
  /\ UNCHANGED <<ro, procs, entry, idx, stack, exc, out, start>>

\* f.write(info_content): the text is encoded and kept in f's buffer; if
\* the codec cannot encode it, the with statement closes f and the
\* UnicodeEncodeError leaves the function
EmitWrite(p) ==
  /\ pc[p] = "write"
  /\ IF CanEncode(enc[p], info_content)
     THEN /\ buf' = [buf EXCEPT ![p] = Encode(enc[p], info_content)]
          /\ pc' = [pc EXCEPT ![p] = "close"]
          /\ hist' = hist
     ELSE /\ Raised(p, "UnicodeEncodeError")
          /\ buf' = buf
  /\ UNCHANGED <<kind, content, ro, enc, procs, entry, idx, stack, exc, out,
                 start>>

\* the end of the with statement: f.close() writes the buffer at offset 0
EmitClose(p) ==
  /\ pc[p] = "close"
  /\ content' = [content EXCEPT ![README] = WriteAt(@, 0, buf[p])]
  /\ buf' = [buf EXCEPT ![p] = <<>>]
  /\ pc' = [pc EXCEPT ![p] = "print_readme"]
  /\ UNCHANGED <<kind, ro, enc, procs, entry, idx, stack, exc, out, hist,
                 start>>

\* print("Created data/README.md with detailed information") and return
PrintReadme(p) ==
  /\ pc[p] = "print_readme"
  /\ out' = [out EXCEPT ![p] = Append(@, <<"readme_created">>)]
  /\ IF entry[p] = "main"
     THEN pc' = [pc EXCEPT ![p] = "summary"] /\ hist' = hist
     ELSE Returned(p)
  /\ UNCHANGED <<kind, content, ro, enc, procs, entry, idx, stack, exc, buf,
                 start>>

(* ---------------------------- main ------------------------------------- *)

\* print("Setup complete!") and the next steps; the script exits with 0
Summary(p) ==
  /\ pc[p] = "summary"
  /\ out' = [out EXCEPT ![p] = Append(@, <<"setup_complete">>)]
  /\ Returned(p)
  /\ UNCHANGED <<kind, content, ro, enc, procs, entry, idx, stack, exc, buf,
                 start>>

(* ---------------------------- specifications --------------------------- *)

Step(p) ==
  \/ CdsBegin(p)
  \/ MdCheck(p)
  \/ MdMkdir(p)
  \/ MdIsdir(p)
  \/ PrintCreated(p)
  \/ CdsEnd(p)
  \/ EmitOpen(p)
  \/ EmitWrite(p)
  \/ EmitClose(p)
  \/ PrintReadme(p)
  \/ Summary(p)

Next ==
  \E p \in AllProcs :
    \/ CallMain(p)
    \/ CallProvisioner(p)
    \/ CallEmitter(p)
    \/ Step(p)

Spec == Init /\ [][Next]_vars

NextConc == \E p \in AllProcs : CallMain(p) \/ Step(p)

SpecConc == InitConc /\ [][NextConc]_vars

(* ---------------------------- vocabulary of the claims ----------------- *)

Range(s) == {s[i] : i \in DOMAIN s}

\* the call invocation p made last has ended
Finished(p) == pc[p] = "idle" /\ hist[p] # <<>>

\* invocation p has made a call: start[p] is the filesystem it began in
Called(p) == pc[p] # "idle" \/ hist[p] # <<>>

Last(p) == hist[p][Len(hist[p])]

\* the statements of create_sample_data_info after the file is open
WritingPcs == {"write", "close", "print_readme"}

\* the statements of main after create_directory_structure has returned
AfterProvisionerPcs == {"open", "summary"} \cup WritingPcs

OSErrors == {"FileExistsError", "FileNotFoundError", "NotADirectoryError",
             "PermissionError", "IsADirectoryError"}

\* the manifest and the ancestors os.makedirs makes on the way
ManifestTree == Nodes \ {README}

EmptyKind == KindOf({}, {})

(* ---------------------------- claims ----------------------------------- *)

\* C1 (completeness): whenever a run of main has ended successfully,
\* whatever the filesystem was when it began, every path of the manifest
\* exists and is a directory.
C1_Completeness ==
  \A p \in procs :
    (Finished(p) /\ Last(p).entry = "main" /\ Last(p).status = "ok")
      => \A d \in ManifestSet : IsDir(d)

\* a run of main that began without data/ has ended successfully
C1_Witness ==
  /\ Finished("p1")
  /\ Last("p1").entry = "main"
  /\ Last("p1").status = "ok"
  /\ start["p1"].kind[DataDir] = "none"

\* C2 (end to end): a run of main that began in an empty, writable working
\* directory ends with exit status 0 and leaves the directories of the
\* manifest (with the ancestors os.makedirs made for them) and exactly one
\* file, data/README.md, whose content is the template.
C2_EndToEnd ==
  \A p \in procs :
    (Finished(p) /\ Last(p).entry = "main" /\ start[p].kind = EmptyKind
       /\ ro = {})
      => /\ Last(p).status = "ok"
         /\ ExitCode(Last(p)) = 0
         /\ Dirs(kind) = ManifestTree
         /\ Files(kind) = {README}
         /\ content[README] = TemplateBytes

\* C2 as the claim words it: no directory but the 12 of the manifest
C2_ExactlyTwelve ==
  \A p \in procs :
    (Finished(p) /\ Last(p).entry = "main" /\ start[p].kind = EmptyKind
       /\ ro = {} /\ Last(p).status = "ok")
      => Dirs(kind) = ManifestSet

\* C3 (idempotence): when create_directory_structure is called again after
\* a call of it that succeeded, every further call succeeds and leaves the
\* set of directories (and the rest of the filesystem) as it found it; in
\* an empty, writable working directory the first call succeeds.
C3_Idempotence ==
  \A p \in procs :
    entry[p] = "create_directory_structure" =>
      /\ (Finished(p) /\ Len(hist[p]) = 1 /\ start[p].kind = EmptyKind
            /\ ro = {})
           => hist[p][1].status = "ok"
      /\ (hist[p] # <<>> /\ hist[p][1].status = "ok")
           => /\ \A i \in DOMAIN hist[p] : hist[p][i].status = "ok"
              /\ (pc[p] # "idle" \/ Len(hist[p]) > 1)
                   => /\ Dirs(kind) = Dirs(start[p].kind)
                      /\ kind = start[p].kind
                      /\ ManifestSet \subseteq Dirs(kind)

\* create_directory_structure has been called twice and the second call has
\* printed its last line
C3_Witness ==
  /\ Finished("p1")
  /\ Len(hist["p1"]) > 1
  /\ Last("p1").entry = "create_directory_structure"
  /\ Last("p1").status = "ok"
  /\ <<"structure_created">> \in Range(out["p1"])

\* C4 (overwrite): a call of create_sample_data_info that began with data/
\* a directory it may write into, and data/README.md absent or a file it
\* may write, leaves data/README.md with exactly the template as content,
\* whatever the file held before.
C4_Overwrite ==
  \A p \in procs :
    (Finished(p) /\ Last(p).entry = "create_sample_data_info"
       /\ start[p].kind[DataDir] = "dir" /\ DataDir \notin ro
       /\ start[p].kind[README] # "dir" /\ README \notin ro)
      => /\ kind[README] = "file"
         /\ content[README] = TemplateBytes

\* C5 (failure propagation): when a path of the manifest is a regular file
\* as a call of the provisioner (on its own or from main) begins, the call
\* never gets past the loop, at the latest the entry that is the file
\* raises an OSError, and main ends with a non-zero exit status without
\* printing "Setup complete".
C5_FailurePropagation ==
  \A p \in procs :
    (Called(p) /\ entry[p] \in {"main", "create_directory_structure"}
       /\ \E d \in ManifestSet : start[p].kind[d] = "file")
      => /\ pc[p] \notin AfterProvisionerPcs \cup {"cds_end"}
         /\ <<"setup_complete">> \notin Range(out[p])
         /\ \A i \in DOMAIN directories :
              start[p].kind[directories[i]] = "file" => idx[p] <= i
         /\ Finished(p)
              => /\ Last(p).status = "raised"
                 /\ Last(p).exc \in OSErrors
                 /\ ExitCode(Last(p)) # 0

\* a run of main has failed with FileExistsError on an entry of the manifest
\* that was a regular file
C5_Witness ==
  /\ Finished("p1")
  /\ Last("p1").entry = "main"
  /\ Last("p1").exc = "FileExistsError"
  /\ start["p1"].kind[directories[idx["p1"]]] = "file"

\* C6 (sequencing and abort): in a run of main the emitter starts only
\* after all 12 entries of the manifest have been processed; a run that
\* fails ends with a non-zero exit status and without the summary, and one
\* that fails in the provisioner at entry k has printed the progress lines
\* of the entries before k only, has made none of the entries after k, and
\* has not touched data/README.md.
C6_SequencingAbort ==
  \A p \in procs :
    entry[p] = "main" =>
      /\ pc[p] \in AfterProvisionerPcs
           => \A i \in DOMAIN directories :
                /\ <<"created", i>> \in Range(out[p])
                /\ IsDir(directories[i])
      /\ (Finished(p) /\ Last(p).status = "raised")
           => /\ ExitCode(Last(p)) # 0
              /\ <<"setup_complete">> \notin Range(out[p])
              /\ <<"readme_created">> \notin Range(out[p])
              /\ <<"structure_created">> \notin Range(out[p])
                   => /\ \A i \in DOMAIN directories :
                           <<"created", i>> \in Range(out[p]) <=> i < idx[p]
                      /\ \A i \in DOMAIN directories :
                           i > idx[p] => kind[directories[i]]
                                           = start[p].kind[directories[i]]
                      /\ kind[README] = start[p].kind[README]
                      /\ content[README] = start[p].content[README]

\* a run of main has failed in the provisioner after it made some entries
C6_Witness ==
  /\ Finished("p1")
  /\ Last("p1").entry = "main"
  /\ Last("p1").status = "raised"
  /\ idx["p1"] > 1
  /\ <<"structure_created">> \notin Range(out["p1"])
  /\ start["p1"].kind[directories[1]] = "none"

\* a run of main has failed in the emitter, after the provisioner
C6_WitnessEmitter ==
  /\ Finished("p1")
  /\ Last("p1").entry = "main"
  /\ Last("p1").status = "raised"
  /\ <<"structure_created">> \in Range(out["p1"])

\* C7 (order dependency): when a call begins with data/ missing and the
\* working directory not writable, or with data a regular file, then at no
\* moment of the call does data/README.md exist, the statements after the
\* open are never reached, and the call ends in failure.
C7_OrderDependency ==
  \A p \in procs :
    (Called(p)
       /\ \/ start[p].kind[DataDir] = "none" /\ Root \in ro
          \/ start[p].kind[DataDir] = "file")
      => /\ kind[README] = "none"
         /\ pc[p] \notin WritingPcs \cup {"summary"}
         /\ Finished(p) => /\ Last(p).status = "raised"
                           /\ ExitCode(Last(p)) # 0

\* a run of main has failed where data/ could not be made
C7_Witness ==
  /\ Finished("p1")
  /\ Last("p1").entry = "main"
  /\ Last("p1").exc = "PermissionError"
  /\ start["p1"].kind[DataDir] = "none"
  /\ Root \in ro

\* what C8 promises of a call of the emitter that cannot write its file
EmitterFailsCleanly(p) ==
  /\ pc[p] \notin WritingPcs
  /\ out[p] = <<>>
  /\ kind = start[p].kind
  /\ content = start[p].content
  /\ Finished(p) => /\ Last(p).status = "raised"
                    /\ Last(p).exc \in OSErrors

\* C8 as stated: a call of create_sample_data_info that begins with data/
\* missing, or not writable, fails with an I/O error, prints nothing and
\* leaves the filesystem as it was.
C8_AsStated ==
  \A p \in procs :
    (Called(p) /\ entry[p] = "create_sample_data_info"
       /\ (start[p].kind[DataDir] # "dir" \/ DataDir \in ro))
      => EmitterFailsCleanly(p)

\* C8 (emitter precondition failure), amended: a call of
\* create_sample_data_info that begins with data/ missing, or with data/
\* not writable and data/README.md not there yet, fails with an I/O error
\* that leaves the function, makes neither data/ nor data/README.md,
\* prints no progress line and leaves the filesystem as it was.
C8_PreconditionFailure ==
  \A p \in procs :
    (Called(p) /\ entry[p] = "create_sample_data_info"
       /\ \/ start[p].kind[DataDir] # "dir"
          \/ DataDir \in ro /\ start[p].kind[README] = "none")
      => EmitterFailsCleanly(p)

\* a call of the emitter has failed for want of data/
C8_Witness ==
  /\ Finished("p1")
  /\ Last("p1").entry = "create_sample_data_info"
  /\ Last("p1").exc = "FileNotFoundError"
  /\ start["p1"].kind[DataDir] = "none"
  /\ Root \notin ro

\* a call of the emitter has failed on a data/ it may not write into
C8_WitnessReadOnly ==
  /\ Finished("p1")
  /\ Last("p1").entry = "create_sample_data_info"
  /\ Last("p1").exc = "PermissionError"
  /\ DataDir \in ro

\* no step removes a directory or a file, turns one into the other, or
\* changes the content of a file other than data/README.md
NoRemovalStep ==
  \A n \in Nodes :
    /\ kind[n] # "none" => kind'[n] = kind[n]
    /\ n # README => content'[n] = content[n]

\* a call that failed in the provisioner at entry k has left the entries
\* before k and their ancestors in place, and data/README.md as it was
KeptOnFailure ==
  \A p \in procs :
    (Finished(p) /\ Last(p).status = "raised"
       /\ Last(p).entry \in {"main", "create_directory_structure"}
       /\ <<"structure_created">> \notin Range(out[p]))
      => /\ \A i \in DOMAIN directories :
              i < idx[p] => \A a \in Prefixes(directories[i]) : IsDir(a)
         /\ Dirs(start[p].kind) \subseteq Dirs(kind)
         /\ kind[README] = start[p].kind[README]
         /\ content[README] = start[p].content[README]

\* C9 (frame, no rollback): across the calls, successful or failing,
\* nothing is removed and no content but that of data/README.md changes,
\* so the set of directories only grows; when the provisioner fails at
\* entry k, what it made for the entries before k stays and a
\* data/README.md that was there keeps its content.
C9_Frame == [][NoRemovalStep]_vars /\ []KeptOnFailure

\* a run of main has failed in the provisioner after making directories,
\* with a data/README.md that was there before
C9_Witness ==
  /\ Finished("p1")
  /\ Last("p1").entry = "main"
  /\ Last("p1").status = "raised"
  /\ idx["p1"] > 1
  /\ start["p1"].kind[README] = "file"
  /\ start["p1"].content[README] # <<>>
  /\ Dirs(kind) # Dirs(start["p1"].kind)

\* both concurrent invocations have made all their runs of main
AllFinished == \A p \in AllProcs : Len(hist[p]) = ConcRuns /\ pc[p] = "idle"

\* the filesystem a single successful run of main leaves in an empty
\* working directory
SingleRunResult ==
  /\ Dirs(kind) = ManifestTree
  /\ Files(kind) = {README}
  /\ content[README] = TemplateBytes

\* C10 (concurrent invocations): when two invocations of main run
\* concurrently in an empty working directory, under every interleaving
\* both end successfully and the filesystem is the one a single invocation
\* leaves: the directories of the manifest and data/README.md with exactly
\* the template.
C10_Concurrent ==
  AllFinished
    => /\ \A p \in AllProcs : \A i \in DOMAIN hist[p] :
            hist[p][i].status = "ok"
       /\ SingleRunResult

\* C10 where both invocations encode with utf-8
C10_ConcurrentUtf8 ==
  (AllFinished /\ \A p \in AllProcs : enc[p] = "utf-8")
    => /\ \A p \in AllProcs : \A i \in DOMAIN hist[p] :
            hist[p][i].status = "ok"
       /\ SingleRunResult

====
